---- MODULE Spec2Model ----
(***************************************************************************)
(* Model of the CCS811 gas sensor driver (adafruit_ccs811.py).             *)
(*                                                                         *)
(* The device is the environment: its registers hw_id, status and          *)
(* meas_mode are state, and the replies to the multi-byte reads are drawn  *)
(* from small sets.  The driver is the class CCS811: its two cached        *)
(* fields, and the position of the call in progress.  `bus' is the list of *)
(* bus transactions of the call in progress (or of the last call).         *)
(* `lock' is the holder of the I2C bus lock and `wire' the list of the     *)
(* single writes and reads seen on the shared bus.                         *)
(***************************************************************************)
EXTENDS Integers, Sequences, FiniteSets, TLC

VARIABLES hw_id, status, meas_mode, pc, _eCO2, _TVOC, bus, last, pre, frame,
          temp_offset, lock, wire

vars == <<hw_id, status, meas_mode, pc, _eCO2, _TVOC, bus, last, pre, frame,
          temp_offset, lock, wire>>

----------------------------------------------------------------------------
(* Register addresses and constants of the source.                         *)

CCS811_ALG_RESULT_DATA == 2
CCS811_NTC == 6
CCS811_THRESHOLDS == 16
CCS811_SW_RESET == 255
CCS811_DRIVE_MODE_1SEC == 1
CCS811_HW_ID_CODE == 129
CCS811_REF_RESISTOR == 100000
STATUS_REG == 0
MEAS_MODE_REG == 1
HW_ID_REG == 32
ERROR_ID_REG == 224
APP_START == 244

(* A Python attribute holding None, and one holding the integer v.         *)
None == <<>>
Some(v) == <<v>>

----------------------------------------------------------------------------
(* Values the device may hold or return.                                   *)

HwIds == {CCS811_HW_ID_CODE, 0, 128, 255}

(* STATUS bytes: every combination of error (bit 0), dataReady (bit 3),    *)
(* appValid (bit 4) and fwMode (bit 7).                                    *)
StatusVals == {e + 8 * d + 16 * a + 128 * f : e \in {0, 1}, d \in {0, 1}, a \in {0, 1}, f \in {0, 1}}

MeasModeVals == {0, 255}

(* Replies to the 8-byte read of ALG_RESULT_DATA.                          *)
AlgFrames == { <<1, 144, 0, 5, 0, 0, 0, 0>>,
               <<1, 144, 0, 5, 9, 8, 7, 6>>,
               <<0, 255, 255, 0, 1, 2, 3, 4>>,
               <<255, 255, 255, 255, 255, 255, 255, 255>> }

ErrorIds == {0, 32}

(* Replies to the 4-byte read of NTC: vref in bytes 0-1, vntc in bytes 2-3 *)
NtcFrames == { <<0, 0, 0, 0>>,
               <<0, 0, 3, 232>>,
               <<0, 0, 255, 255>>,
               <<3, 232, 3, 232>>,
               <<3, 232, 0, 0>> }

(* Values the user assigns to temp_offset, in degrees.                     *)
TempOffsets == {0, 5}

----------------------------------------------------------------------------
(* Bit arithmetic on bytes.                                                *)

Pow2(n) == 2 ^ n

(* buffer[1] & (1 << bit) as a bool: what ROBit/RWBit.__get__ returns.     *)
GetBit(byte, bit) == (byte \div Pow2(bit)) % 2 = 1

(* RWBit.__set__: set or clear one bit of the byte read back.              *)
SetBit(byte, bit, value) ==
    LET cleared == IF GetBit(byte, bit) THEN byte - Pow2(bit) ELSE byte
    IN  IF value THEN cleared + Pow2(bit) ELSE cleared

(* RWBits.__set__: replace the field of `width' bits at `lowest'.          *)
SetBits(byte, width, lowest, value) ==
    LET field == (byte \div Pow2(lowest)) % Pow2(width)
    IN  byte - field * Pow2(lowest) + (value % Pow2(width)) * Pow2(lowest)

----------------------------------------------------------------------------
(* Bus transactions, as the I2CDevice sees them.                           *)

(* write(buf): the bytes `out' are written, nothing is read.               *)
BusWrite(out) == [kind |-> "write", out |-> out, in |-> <<>>]

(* write(buf, end=1, stop=False); read_into(buf, start=1): the register    *)
(* pointer is written and the bytes `in' are read back.                    *)
BusRead(reg, in) == [kind |-> "read", out |-> <<reg>>, in |-> in]

(* time.sleep(.1) *)
BusWait == [kind |-> "wait", out |-> <<>>, in |-> <<>>]

Call(op, args, kind, val) == [op |-> op, args |-> args, kind |-> kind, val |-> val]

----------------------------------------------------------------------------
Init ==
    /\ hw_id \in HwIds
    /\ status \in StatusVals
    /\ meas_mode \in MeasModeVals
    /\ pc = "new"
    /\ _eCO2 = None
    /\ _TVOC = None
    /\ bus = <<>>
    /\ last = Call("none", <<>>, "none", None)
    /\ pre = <<None, None>>
    /\ frame = <<>>
    /\ temp_offset = 0
    /\ lock = "free"
    /\ wire = <<>>

(* The status bits the device drives: error, dataReady, appValid, fwMode.  *)
StatusBits == {0, 3, 4, 7}

(* The device changes one bit of its status byte on its own.               *)
DeviceChange ==
    /\ \E bit \in StatusBits : status' = SetBit(status, bit, ~GetBit(status, bit))
    /\ UNCHANGED <<temp_offset, lock, wire, hw_id, meas_mode, pc, _eCO2, _TVOC, bus, last, pre, frame>>

----------------------------------------------------------------------------
(* CCS811.__init__, one action per bus transaction.                        *)

Fail(kind) ==
    /\ pc' = "failed"
    /\ last' = Call("__init__", <<>>, kind, None)

(* Init_hw_id without the comparison: the ID is read and not checked.      *)
Init_hw_id_Unchecked ==
    /\ pc = "new"
    /\ bus' = <<BusRead(HW_ID_REG, <<hw_id>>)>>
    /\ pc' = "init_app_start"
    /\ last' = Call("__init__", <<>>, "running", None)
    /\ UNCHANGED <<temp_offset, lock, wire, hw_id, status, meas_mode, _eCO2, _TVOC, pre, frame>>

(* if self.hw_id != CCS811_HW_ID_CODE: raise RuntimeError("Device ID ...")  *)
Init_hw_id ==
    /\ pc = "new"
    /\ bus' = <<BusRead(HW_ID_REG, <<hw_id>>)>>
    /\ IF hw_id # CCS811_HW_ID_CODE
         THEN Fail("DeviceNotFound")
         ELSE pc' = "init_app_start" /\ last' = Call("__init__", <<>>, "running", None)
    /\ UNCHANGED <<temp_offset, lock, wire, hw_id, status, meas_mode, _eCO2, _TVOC, pre, frame>>

(* buf[0] = 0xF4; i2c.write(buf, end=1, stop=True)                         *)
Init_app_start ==
    /\ pc = "init_app_start"
    /\ bus' = Append(bus, BusWrite(<<APP_START>>))
    /\ pc' = "init_sleep"
    /\ UNCHANGED <<temp_offset, lock, wire, hw_id, status, meas_mode, _eCO2, _TVOC, last, pre, frame>>

(* Init_sleep without the sleep.                                           *)
Init_sleep_Skipped ==
    /\ pc = "init_sleep"
    /\ pc' = "init_error"
    /\ UNCHANGED <<temp_offset, lock, wire, hw_id, status, meas_mode, _eCO2, _TVOC, bus, last, pre, frame>>

(* time.sleep(.1)                                                          *)
Init_sleep ==
    /\ pc = "init_sleep"
    /\ bus' = Append(bus, BusWait)
    /\ pc' = "init_error"
    /\ UNCHANGED <<temp_offset, lock, wire, hw_id, status, meas_mode, _eCO2, _TVOC, last, pre, frame>>

(* Init_error testing fw_mode before error.                                *)
Init_error_FwModeFirst ==
    /\ pc = "init_error"
    /\ bus' = Append(bus, BusRead(STATUS_REG, <<status>>))
    /\ IF ~GetBit(status, 7)
         THEN Fail("BootFailure")
         ELSE IF GetBit(status, 0)
                THEN Fail("DeviceError")
                ELSE pc' = "init_fw_mode" /\ UNCHANGED last
    /\ UNCHANGED <<temp_offset, lock, wire, hw_id, status, meas_mode, _eCO2, _TVOC, pre, frame>>

(* if self.error: raise RuntimeError("Device returned a error! ...")       *)
Init_error ==
    /\ pc = "init_error"
    /\ bus' = Append(bus, BusRead(STATUS_REG, <<status>>))
    /\ IF GetBit(status, 0)
         THEN Fail("DeviceError")
         ELSE pc' = "init_fw_mode" /\ UNCHANGED last
    /\ UNCHANGED <<temp_offset, lock, wire, hw_id, status, meas_mode, _eCO2, _TVOC, pre, frame>>

(* Init_fw_mode testing app_valid (bit 4) in place of fw_mode (bit 7).     *)
Init_fw_mode_AppValid ==
    /\ pc = "init_fw_mode"
    /\ bus' = Append(bus, BusRead(STATUS_REG, <<status>>))
    /\ IF ~GetBit(status, 4)
         THEN Fail("BootFailure")
         ELSE pc' = "init_interrupt_enabled" /\ UNCHANGED last
    /\ UNCHANGED <<temp_offset, lock, wire, hw_id, status, meas_mode, _eCO2, _TVOC, pre, frame>>

(* if not self.fw_mode: raise RuntimeError("Device did not enter ...")     *)
Init_fw_mode ==
    /\ pc = "init_fw_mode"
    /\ bus' = Append(bus, BusRead(STATUS_REG, <<status>>))
    /\ IF ~GetBit(status, 7)
         THEN Fail("BootFailure")
         ELSE pc' = "init_interrupt_enabled" /\ UNCHANGED last
    /\ UNCHANGED <<temp_offset, lock, wire, hw_id, status, meas_mode, _eCO2, _TVOC, pre, frame>>

(* self.interrupt_enabled = False                                          *)
Init_interrupt_enabled ==
    /\ pc = "init_interrupt_enabled"
    /\ LET value == SetBit(meas_mode, 3, FALSE)
       IN  /\ bus' = bus \o <<BusRead(MEAS_MODE_REG, <<meas_mode>>),
                              BusWrite(<<MEAS_MODE_REG, value>>)>>
           /\ meas_mode' = value
    /\ pc' = "init_drive_mode"
    /\ UNCHANGED <<temp_offset, lock, wire, hw_id, status, _eCO2, _TVOC, last, pre, frame>>

(* Init_drive_mode writing the whole register in place of the field.      *)
Init_drive_mode_WholeByte ==
    /\ pc = "init_drive_mode"
    /\ LET value == CCS811_DRIVE_MODE_1SEC * 16
       IN  /\ bus' = bus \o <<BusRead(MEAS_MODE_REG, <<meas_mode>>),
                              BusWrite(<<MEAS_MODE_REG, value>>)>>
           /\ meas_mode' = value
    /\ _eCO2' = None
    /\ _TVOC' = None
    /\ pc' = "ready"
    /\ last' = Call("__init__", <<>>, "ok", None)
    /\ UNCHANGED <<temp_offset, lock, wire, hw_id, status, pre, frame>>

(* self.drive_mode = CCS811_DRIVE_MODE_1SEC;                               *)
(* self._eCO2 = None; self._TVOC = None                                    *)
Init_drive_mode ==
    /\ pc = "init_drive_mode"
    /\ LET value == SetBits(meas_mode, 3, 4, CCS811_DRIVE_MODE_1SEC)
       IN  /\ bus' = bus \o <<BusRead(MEAS_MODE_REG, <<meas_mode>>),
                              BusWrite(<<MEAS_MODE_REG, value>>)>>
           /\ meas_mode' = value
    /\ _eCO2' = None
    /\ _TVOC' = None
    /\ pc' = "ready"
    /\ last' = Call("__init__", <<>>, "ok", None)
    /\ UNCHANGED <<temp_offset, lock, wire, hw_id, status, pre, frame>>

__init__ ==
    \/ Init_hw_id
    \/ Init_app_start
    \/ Init_sleep
    \/ Init_error
    \/ Init_fw_mode
    \/ Init_interrupt_enabled
    \/ Init_drive_mode

----------------------------------------------------------------------------
(* The properties and methods of a constructed instance.                   *)

(* TVOC testing the error bit before data_ready.                           *)
TVOC_ErrorFirst ==
    /\ pc = "ready"
    /\ pre' = <<_eCO2, _TVOC>>
    /\ bus' = <<BusRead(STATUS_REG, <<status>>)>>
    /\ IF GetBit(status, 0)
         THEN /\ pc' = "update_error_code"
              /\ last' = Call("TVOC", <<>>, "running", None)
         ELSE IF GetBit(status, 3)
                THEN /\ pc' = "update_read"
                     /\ last' = Call("TVOC", <<>>, "running", None)
                ELSE /\ pc' = "ready"
                     /\ last' = Call("TVOC", <<>>, "ok", _TVOC)
    /\ UNCHANGED <<temp_offset, lock, wire, hw_id, status, meas_mode, _eCO2, _TVOC, frame>>

(* TVOC refreshing without the data_ready test.                            *)
TVOC_AlwaysRefreshes ==
    /\ pc = "ready"
    /\ pre' = <<_eCO2, _TVOC>>
    /\ bus' = <<BusRead(STATUS_REG, <<status>>)>>
    /\ pc' = "update_read"
    /\ last' = Call("TVOC", <<>>, "running", None)
    /\ UNCHANGED <<temp_offset, lock, wire, hw_id, status, meas_mode, _eCO2, _TVOC, frame>>

(* TVOC, up to the test of _update_data: self._update_data() reads         *)
(* data_ready; when it is false the property returns self._TVOC.           *)
TVOC ==
    /\ pc = "ready"
    /\ pre' = <<_eCO2, _TVOC>>
    /\ bus' = <<BusRead(STATUS_REG, <<status>>)>>
    /\ IF GetBit(status, 3)
         THEN /\ pc' = "update_read"
              /\ last' = Call("TVOC", <<>>, "running", None)
         ELSE /\ pc' = "ready"
              /\ last' = Call("TVOC", <<>>, "ok", _TVOC)
    /\ UNCHANGED <<temp_offset, lock, wire, hw_id, status, meas_mode, _eCO2, _TVOC, frame>>

(* Update_read clipping eCO2 to 400..8192, as the docstring of eCO2 says.  *)
Update_read_Clipped ==
    /\ pc = "update_read"
    /\ \E buf \in AlgFrames :
         LET raw == buf[1] * 256 + buf[2]
         IN  /\ bus' = Append(bus, BusRead(CCS811_ALG_RESULT_DATA, buf))
             /\ _eCO2' = Some(IF raw < 400 THEN 400 ELSE IF raw > 8192 THEN 8192 ELSE raw)
             /\ _TVOC' = Some(buf[3] * 256 + buf[4])
             /\ frame' = buf
    /\ pc' = "update_error"
    /\ UNCHANGED <<temp_offset, lock, wire, hw_id, status, meas_mode, last, pre>>

(* Update_read assigning _TVOC only.                                       *)
Update_read_OnlyTVOC ==
    /\ pc = "update_read"
    /\ \E buf \in AlgFrames :
         /\ bus' = Append(bus, BusRead(CCS811_ALG_RESULT_DATA, buf))
         /\ _TVOC' = Some(buf[3] * 256 + buf[4])
         /\ frame' = buf
    /\ pc' = "update_error"
    /\ UNCHANGED <<temp_offset, lock, wire, hw_id, status, meas_mode, _eCO2, last, pre>>

(* _update_data: the 8-byte read of ALG_RESULT_DATA and the two            *)
(* assignments that follow it.                                             *)
Update_read ==
    /\ pc = "update_read"
    /\ \E buf \in AlgFrames :
         /\ bus' = Append(bus, BusRead(CCS811_ALG_RESULT_DATA, buf))
         /\ _eCO2' = Some(buf[1] * 256 + buf[2])
         /\ _TVOC' = Some(buf[3] * 256 + buf[4])
         /\ frame' = buf
    /\ pc' = "update_error"
    /\ UNCHANGED <<temp_offset, lock, wire, hw_id, status, meas_mode, last, pre>>

(* _update_data: if self.error: ...; otherwise TVOC returns self._TVOC.    *)
Update_error ==
    /\ pc = "update_error"
    /\ bus' = Append(bus, BusRead(STATUS_REG, <<status>>))
    /\ IF GetBit(status, 0)
         THEN pc' = "update_error_code" /\ UNCHANGED last
         ELSE pc' = "ready" /\ last' = Call("TVOC", <<>>, "ok", _TVOC)
    /\ UNCHANGED <<temp_offset, lock, wire, hw_id, status, meas_mode, _eCO2, _TVOC, pre, frame>>

(* _update_data: raise RuntimeError("Error:" + str(self.error_code))       *)
Update_error_code ==
    /\ pc = "update_error_code"
    /\ \E code \in ErrorIds :
         /\ bus' = Append(bus, BusRead(ERROR_ID_REG, <<code>>))
         /\ last' = Call("TVOC", <<>>, "DeviceError", Some(code))
    /\ pc' = "ready"
    /\ UNCHANGED <<temp_offset, lock, wire, hw_id, status, meas_mode, _eCO2, _TVOC, pre, frame>>

_update_data ==
    \/ Update_read
    \/ Update_error
    \/ Update_error_code

(* eCO2: return self._eCO2                                                 *)
eCO2 ==
    /\ pc = "ready"
    /\ pre' = <<_eCO2, _TVOC>>
    /\ bus' = <<>>
    /\ last' = Call("eCO2", <<>>, "ok", _eCO2)
    /\ UNCHANGED <<temp_offset, lock, wire, hw_id, status, meas_mode, pc, _eCO2, _TVOC, frame>>

(* error_code: read one byte of register 0xE0.                             *)
error_code ==
    /\ pc = "ready"
    /\ pre' = <<_eCO2, _TVOC>>
    /\ \E code \in ErrorIds :
         /\ bus' = <<BusRead(ERROR_ID_REG, <<code>>)>>
         /\ last' = Call("error_code", <<>>, "ok", Some(code))
    /\ UNCHANGED <<temp_offset, lock, wire, hw_id, status, meas_mode, pc, _eCO2, _TVOC, frame>>

(* A Python bool as the integer it equals.                                 *)
Bool(b) == IF b THEN 1 ELSE 0

(* ROBit.__get__ called by the user of the instance: one read of the       *)
(* status register, the bit of the byte read is returned.                  *)
ROBit_get(name, bit) ==
    /\ pc = "ready"
    /\ pre' = <<_eCO2, _TVOC>>
    /\ bus' = <<BusRead(STATUS_REG, <<status>>)>>
    /\ last' = Call(name, <<>>, "ok", Some(Bool(GetBit(status, bit))))
    /\ UNCHANGED <<temp_offset, lock, wire, hw_id, status, meas_mode, pc, _eCO2, _TVOC, frame>>

(* error = i2c_bit.ROBit(0x00, 0)                                          *)
error == ROBit_get("error", 0)

(* data_ready = i2c_bit.ROBit(0x00, 3)                                     *)
data_ready == ROBit_get("data_ready", 3)

(* app_valid = i2c_bit.ROBit(0x00, 4)                                      *)
app_valid == ROBit_get("app_valid", 4)

(* fw_mode answered from what the constructor found, without a bus read.   *)
fw_mode_Cached ==
    /\ pc = "ready"
    /\ pre' = <<_eCO2, _TVOC>>
    /\ bus' = <<>>
    /\ last' = Call("fw_mode", <<>>, "ok", Some(1))
    /\ UNCHANGED <<temp_offset, lock, wire, hw_id, status, meas_mode, pc, _eCO2, _TVOC, frame>>

(* fw_mode = i2c_bit.ROBit(0x00, 7)                                        *)
fw_mode == ROBit_get("fw_mode", 7)

(* hw_id = i2c_bits.ROBits(8, 0x20, 0), read by the user of the instance.  *)
Get_hw_id ==
    /\ pc = "ready"
    /\ pre' = <<_eCO2, _TVOC>>
    /\ bus' = <<BusRead(HW_ID_REG, <<hw_id>>)>>
    /\ last' = Call("hw_id", <<>>, "ok", Some(hw_id % 256))
    /\ UNCHANGED <<temp_offset, lock, wire, hw_id, status, meas_mode, pc, _eCO2, _TVOC, frame>>

(* sensor.temp_offset = offset, by the user of the instance.               *)
Set_temp_offset(offset) ==
    /\ pc = "ready"
    /\ temp_offset' = offset
    /\ pre' = <<_eCO2, _TVOC>>
    /\ bus' = <<>>
    /\ last' = Call("temp_offset", <<offset>>, "ok", None)
    /\ UNCHANGED <<lock, wire, hw_id, status, meas_mode, pc, _eCO2, _TVOC, frame>>

(* vref = (buf[1] << 8) | buf[2] read from the low bytes.                  *)
Vref_LowBytes(buf) == buf[3] * 256 + buf[4]

(* vref = (buf[1] << 8) | buf[2], buf[0] being the register pointer.       *)
Vref(buf) == buf[1] * 256 + buf[2]

(* vntc = (buf[3] << 8) | buf[4]                                           *)
Vntc(buf) == buf[3] * 256 + buf[4]

(* What temperature does with the bytes read.  rntc = vntc * 100000 / vref *)
(* raises ZeroDivisionError when vref is 0; math.log(rntc / 10000.0)       *)
(* raises ValueError when rntc is 0.  The value returned is the Beta       *)
(* equation of rntc less temp_offset: it is kept as the exact triple       *)
(* <<numerator of rntc, denominator of rntc, offset>>, the logarithm is    *)
(* not evaluated.                                                          *)
NtcResult(buf, offset) ==
    IF Vref(buf) = 0
      THEN Call("temperature", <<>>, "ZeroDivisionError", None)
      ELSE IF Vntc(buf) * CCS811_REF_RESISTOR = 0
             THEN Call("temperature", <<>>, "ValueError", None)
             ELSE Call("temperature", <<>>, "ok",
                       <<Vntc(buf) * CCS811_REF_RESISTOR, Vref(buf), offset>>)

(* temperature reading vref and vntc in two transactions of 2 bytes.       *)
temperature_TwoReads ==
    /\ pc = "ready"
    /\ pre' = <<_eCO2, _TVOC>>
    /\ \E buf \in NtcFrames :
         /\ bus' = <<BusRead(CCS811_NTC, <<buf[1], buf[2]>>),
                     BusRead(CCS811_NTC, <<buf[3], buf[4]>>)>>
         /\ last' = NtcResult(buf, temp_offset)
    /\ UNCHANGED <<temp_offset, lock, wire, hw_id, status, meas_mode, pc, _eCO2, _TVOC, frame>>

(* temperature: one read of 4 bytes of register NTC, then the computation. *)
temperature ==
    /\ pc = "ready"
    /\ pre' = <<_eCO2, _TVOC>>
    /\ \E buf \in NtcFrames :
         /\ bus' = <<BusRead(CCS811_NTC, buf)>>
         /\ last' = NtcResult(buf, temp_offset)
    /\ UNCHANGED <<temp_offset, lock, wire, hw_id, status, meas_mode, pc, _eCO2, _TVOC, frame>>

(* The buffer set_interrupt_thresholds writes.                             *)
ThresholdsBuf(low_med, med_high, hysteresis) ==
    << CCS811_THRESHOLDS,
       (low_med \div 256) % 16, low_med % 16,
       (med_high \div 256) % 16, med_high % 16,
       hysteresis >>

set_interrupt_thresholds(low_med, med_high, hysteresis) ==
    /\ pc = "ready"
    /\ pre' = <<_eCO2, _TVOC>>
    /\ bus' = <<BusWrite(ThresholdsBuf(low_med, med_high, hysteresis))>>
    /\ last' = Call("set_interrupt_thresholds", <<low_med, med_high, hysteresis>>, "ok", None)
    /\ UNCHANGED <<temp_offset, lock, wire, hw_id, status, meas_mode, pc, _eCO2, _TVOC, frame>>

(* reset forgetting the cached measurement.                                *)
reset_ClearsCache ==
    /\ pc = "ready"
    /\ pre' = <<_eCO2, _TVOC>>
    /\ bus' = <<BusWrite(<<CCS811_SW_RESET, 17, 229, 114, 138>>)>>
    /\ last' = Call("reset", <<>>, "ok", None)
    /\ _eCO2' = None
    /\ _TVOC' = None
    /\ UNCHANGED <<temp_offset, lock, wire, hw_id, status, meas_mode, pc, frame>>

(* reset followed by the application-start command of the constructor.    *)
reset_Restarts ==
    /\ pc = "ready"
    /\ pre' = <<_eCO2, _TVOC>>
    /\ bus' = <<BusWrite(<<CCS811_SW_RESET, 17, 229, 114, 138>>), BusWrite(<<APP_START>>)>>
    /\ last' = Call("reset", <<>>, "ok", None)
    /\ UNCHANGED <<temp_offset, lock, wire, hw_id, status, meas_mode, pc, _eCO2, _TVOC, frame>>

(* reset: seq = bytearray([CCS811_SW_RESET, 0x11, 0xE5, 0x72, 0x8A])       *)
reset ==
    /\ pc = "ready"
    /\ pre' = <<_eCO2, _TVOC>>
    /\ bus' = <<BusWrite(<<CCS811_SW_RESET, 17, 229, 114, 138>>)>>
    /\ last' = Call("reset", <<>>, "ok", None)
    /\ UNCHANGED <<temp_offset, lock, wire, hw_id, status, meas_mode, pc, _eCO2, _TVOC, frame>>

(* set_environmental_data(humidity, temperature); temperature512 is the    *)
(* temperature in 1/512 degree.  hum_perc = int(humidity) << 1 is          *)
(* computed, then math.fmod(temperature) is called with one argument:      *)
(* math.fmod takes two and raises TypeError, so the statements after it    *)
(* never run.                                                              *)
set_environmental_data(humidity, temperature512) ==
    /\ pc = "ready"
    /\ pre' = <<_eCO2, _TVOC>>
    /\ bus' = <<>>
    /\ last' = Call("set_environmental_data", <<humidity, temperature512>>, "TypeError", None)
    /\ UNCHANGED <<temp_offset, lock, wire, hw_id, status, meas_mode, pc, _eCO2, _TVOC, frame>>

(* Arguments the caller passes to set_environmental_data: humidity in      *)
(* percent, temperature in 1/512 degree (-26, -25, 25.5 and 101 C).        *)
HumidityArgs == {-1, 50, 101}
TemperatureArgs == {-13312, -12800, 13056, 51712}

(* Arguments the caller passes to set_interrupt_thresholds.                *)
LowMedArgs == {0, 300, 65535}
MedHighArgs == {600, 65535}
HysteresisArgs == {50, 255}

Next ==
    \/ DeviceChange
    \/ __init__
    \/ TVOC
    \/ _update_data
    \/ eCO2
    \/ error_code
    \/ \E l \in LowMedArgs, m \in MedHighArgs, h \in HysteresisArgs :
         set_interrupt_thresholds(l, m, h)
    \/ reset
    \/ error
    \/ data_ready
    \/ app_valid
    \/ fw_mode
    \/ Get_hw_id
    \/ \E offset \in TempOffsets : Set_temp_offset(offset)
    \/ temperature
    \/ \E h \in HumidityArgs, t \in TemperatureArgs :
         set_environmental_data(h, t)

Spec == Init /\ [][Next]_vars

----------------------------------------------------------------------------
(* The register reads of the driver on a bus shared with another user,     *)
(* one action per statement of the `with self.i2c_device as i2c:' blocks   *)
(* of error_code, _update_data and temperature.  I2CDevice takes the bus   *)
(* lock on entering the block and gives it back on leaving it; the other   *)
(* user of the bus also transfers only while it holds the lock.            *)

(* Longest list of transfers kept in `wire'.                               *)
MaxWire == 5

(* The reads the driver makes itself: <<property, register, bytes read>>.  *)
RegisterReads == { <<"error_code", ERROR_ID_REG, 1>>,
                   <<"_update_data", CCS811_ALG_RESULT_DATA, 8>>,
                   <<"temperature", CCS811_NTC, 4>> }

Transfer(by, kind, reg, n) == [by |-> by, kind |-> kind, reg |-> reg, n |-> n]

InitBus ==
    /\ hw_id = CCS811_HW_ID_CODE
    /\ status \in {128, 136}
    /\ meas_mode = 16
    /\ pc = "ready"
    /\ _eCO2 = None
    /\ _TVOC = None
    /\ bus = <<>>
    /\ last = Call("__init__", <<>>, "ok", None)
    /\ pre = <<None, None>>
    /\ frame = <<>>
    /\ temp_offset = 0
    /\ lock = "free"
    /\ wire = <<>>

(* with self.i2c_device as i2c: __enter__ waits until try_lock succeeds.   *)
With_enter(read) ==
    /\ pc = "ready"
    /\ lock = "free"
    /\ lock' = "driver"
    /\ pc' = "with_entered"
    /\ last' = Call(read[1], <<read[2], read[3]>>, "running", None)
    /\ UNCHANGED <<hw_id, status, meas_mode, _eCO2, _TVOC, bus, pre, frame, temp_offset, wire>>

(* i2c.write(buf, end=1, stop=False), then leaving the block and entering  *)
(* a second one for the read.                                              *)
I2c_write_Unlocks ==
    /\ pc = "with_entered"
    /\ Len(wire) < MaxWire
    /\ wire' = Append(wire, Transfer("driver", "write", last.args[1], 1))
    /\ lock' = "free"
    /\ pc' = "pointer_written"
    /\ UNCHANGED <<hw_id, status, meas_mode, _eCO2, _TVOC, bus, last, pre, frame, temp_offset>>

(* i2c.write(buf, end=1, stop=False): the register pointer.                *)
I2c_write ==
    /\ pc = "with_entered"
    /\ Len(wire) < MaxWire
    /\ wire' = Append(wire, Transfer("driver", "write", last.args[1], 1))
    /\ pc' = "pointer_written"
    /\ UNCHANGED <<hw_id, status, meas_mode, _eCO2, _TVOC, bus, last, pre, frame, temp_offset, lock>>

(* i2c.read_into(buf, start=1): the bytes of the register.                 *)
I2c_read_into ==
    /\ pc = "pointer_written"
    /\ Len(wire) < MaxWire
    /\ wire' = Append(wire, Transfer("driver", "read", last.args[1], last.args[2]))
    /\ pc' = "read_done"
    /\ UNCHANGED <<hw_id, status, meas_mode, _eCO2, _TVOC, bus, last, pre, frame, temp_offset, lock>>

(* The end of the with block: __exit__ unlocks the bus.                    *)
With_exit ==
    /\ pc = "read_done"
    /\ lock' = "free"
    /\ pc' = "ready"
    /\ last' = [last EXCEPT !.kind = "ok"]
    /\ UNCHANGED <<hw_id, status, meas_mode, _eCO2, _TVOC, bus, pre, frame, temp_offset, wire>>

(* The other user of the bus: lock, any number of transfers, unlock.       *)
Other_lock ==
    /\ lock = "free"
    /\ lock' = "other"
    /\ UNCHANGED <<hw_id, status, meas_mode, pc, _eCO2, _TVOC, bus, last, pre, frame, temp_offset, wire>>

Other_transfer ==
    /\ lock = "other"
    /\ Len(wire) < MaxWire
    /\ \E kind \in {"write", "read"} :
         wire' = Append(wire, Transfer("other", kind, STATUS_REG, 1))
    /\ UNCHANGED <<hw_id, status, meas_mode, pc, _eCO2, _TVOC, bus, last, pre, frame, temp_offset, lock>>

Other_unlock ==
    /\ lock = "other"
    /\ lock' = "free"
    /\ UNCHANGED <<hw_id, status, meas_mode, pc, _eCO2, _TVOC, bus, last, pre, frame, temp_offset, wire>>

NextBus ==
    \/ \E read \in RegisterReads : With_enter(read)
    \/ I2c_write
    \/ I2c_read_into
    \/ With_exit
    \/ Other_lock
    \/ Other_transfer
    \/ Other_unlock

SpecBus == InitBus /\ [][NextBus]_vars

----------------------------------------------------------------------------
(* Reading the transaction list.                                           *)

IsRead(t, reg) == t.kind = "read" /\ t.out = <<reg>>
IsWrite(t, reg) == t.kind = "write" /\ Len(t.out) >= 1 /\ t.out[1] = reg

Reads(reg) == {i \in 1..Len(bus) : IsRead(bus[i], reg)}
Writes(reg) == {i \in 1..Len(bus) : IsWrite(bus[i], reg)}
Waits == {i \in 1..Len(bus) : bus[i].kind = "wait"}

Min(S) == CHOOSE x \in S : \A y \in S : x <= y
Max(S) == CHOOSE x \in S : \A y \in S : y <= x

Constructing == last.op = "__init__"

(* Every index of A has an index of B before it.                           *)
Preceded(A, B) == \A i \in A : \E j \in B : j < i

(* The STATUS reads of the constructor that found error clear / fwMode set *)
ErrorClearReads == {i \in Reads(STATUS_REG) : ~GetBit(bus[i].in[1], 0)}
FwModeSetReads == {i \in Reads(STATUS_REG) : GetBit(bus[i].in[1], 7)}

(* C1: during and after a construction the transactions are in the order   *)
(* HW_ID read, 0xF4 write, wait, STATUS read, write clearing intEnable,     *)
(* write setting driveMode to 1, each one only after the one before it     *)
(* succeeded; a successful construction has made all of them.              *)
C1_BootOrder ==
    Constructing =>
      /\ bus # <<>> => IsRead(bus[1], HW_ID_REG)
      /\ \A i \in Writes(APP_START) :
           /\ bus[i].out = <<APP_START>>
           /\ \E j \in Reads(HW_ID_REG) : j < i /\ bus[j].in = <<CCS811_HW_ID_CODE>>
      /\ Cardinality(Writes(APP_START)) <= 1
      /\ Preceded(Waits, Writes(APP_START))
      /\ Preceded(Reads(STATUS_REG), Waits)
      /\ Preceded(Writes(MEAS_MODE_REG), ErrorClearReads)
      /\ Preceded(Writes(MEAS_MODE_REG), FwModeSetReads)
      /\ Cardinality(Writes(MEAS_MODE_REG)) <= 2
      /\ Writes(MEAS_MODE_REG) # {} =>
           ~GetBit(bus[Min(Writes(MEAS_MODE_REG))].out[2], 3)
      /\ Cardinality(Writes(MEAS_MODE_REG)) = 2 =>
           (bus[Max(Writes(MEAS_MODE_REG))].out[2] \div 16) % 8 = CCS811_DRIVE_MODE_1SEC
      /\ (pc = "ready" /\ last.kind = "ok") => Cardinality(Writes(MEAS_MODE_REG)) = 2

C1_Witness ==
    /\ Constructing /\ pc = "ready" /\ last.kind = "ok"
    /\ Len(bus) = 9
    /\ bus[7].out = <<MEAS_MODE_REG, 247>>
    /\ bus[9].out = <<MEAS_MODE_REG, 151>>

(* C2: when the hardware ID is not 0x81 the construction fails with        *)
(* DeviceNotFound and the HW_ID read is its only bus transaction.          *)
C2_WrongHwId ==
    (hw_id # CCS811_HW_ID_CODE /\ pc # "new") =>
      /\ pc = "failed"
      /\ last = Call("__init__", <<>>, "DeviceNotFound", None)
      /\ bus = <<BusRead(HW_ID_REG, <<hw_id>>)>>

C2_Witness ==
    /\ hw_id = 128 /\ pc = "failed" /\ last.kind = "DeviceNotFound" /\ Len(bus) = 1

(* C3: when the constructor's read of the error bit, made after the        *)
(* app-start write and the wait, finds it set, the construction fails with *)
(* DeviceError whatever fwMode is, and MEAS_MODE is never written.         *)
C3_BootError ==
    (Constructing /\ Reads(STATUS_REG) # {}
       /\ GetBit(bus[Min(Reads(STATUS_REG))].in[1], 0)) =>
      /\ pc = "failed"
      /\ last.kind = "DeviceError"
      /\ Writes(MEAS_MODE_REG) = {}
      /\ Writes(APP_START) # {} /\ Waits # {}

C3_Witness ==
    /\ Constructing /\ pc = "failed" /\ last.kind = "DeviceError"
    /\ Len(bus) = 4 /\ GetBit(bus[4].in[1], 0) /\ GetBit(bus[4].in[1], 7)

(* C4: when the error read finds error clear and the fwMode read finds     *)
(* fwMode clear the construction fails with BootFailure and MEAS_MODE is   *)
(* never written; a construction that succeeded read error clear and       *)
(* fwMode set.                                                             *)
C4_BootFailure ==
    Constructing =>
      /\ (Cardinality(Reads(STATUS_REG)) = 2
            /\ ~GetBit(bus[Min(Reads(STATUS_REG))].in[1], 0)
            /\ ~GetBit(bus[Max(Reads(STATUS_REG))].in[1], 7)) =>
           /\ pc = "failed"
           /\ last.kind = "BootFailure"
           /\ Writes(MEAS_MODE_REG) = {}
      /\ (pc = "ready" /\ last.kind = "ok") =>
           /\ Cardinality(Reads(STATUS_REG)) = 2
           /\ ~GetBit(bus[Min(Reads(STATUS_REG))].in[1], 0)
           /\ GetBit(bus[Max(Reads(STATUS_REG))].in[1], 7)

C4_Witness ==
    /\ Constructing /\ pc = "failed" /\ last.kind = "BootFailure"
    /\ Len(bus) = 5 /\ ~GetBit(bus[5].in[1], 0) /\ ~GetBit(bus[5].in[1], 7)

(* A completed TVOC read whose data_ready test was true.                   *)
RefreshedTVOC ==
    /\ last.op = "TVOC" /\ pc = "ready"
    /\ Len(bus) >= 1 /\ IsRead(bus[1], STATUS_REG) /\ GetBit(bus[1].in[1], 3)

CachePaired ==
    \/ _eCO2 = None /\ _TVOC = None
    \/ /\ Len(frame) = 8
       /\ _eCO2 = Some(256 * frame[1] + frame[2])
       /\ _TVOC = Some(256 * frame[3] + frame[4])

(* C6: the cached eCO2 and TVOC are both absent or both from the same      *)
(* 8-byte read, and only the measurement read of _update_data changes      *)
(* them.                                                                   *)
C6_CacheUpdatesTogether ==
    /\ []CachePaired
    /\ [][(<<_eCO2, _TVOC>>' # <<_eCO2, _TVOC>>) =>
            /\ pc = "update_read"
            /\ IsRead(bus'[Len(bus')], CCS811_ALG_RESULT_DATA)
            /\ frame' = bus'[Len(bus')].in]_vars

C6_Witness ==
    /\ pc = "ready" /\ last.op = "reset"
    /\ _eCO2 = Some(255) /\ _TVOC = Some(65280)

(* C7: an eCO2 read, and a TVOC read, made while dataReady is false        *)
(* returns the cached value, leaves the cache as it was and makes no       *)
(* transaction on register 0x02.                                           *)
C7_NotReadyKeepsCache ==
    [][((eCO2 \/ TVOC) /\ ~GetBit(status, 3)) =>
         /\ pc' = "ready"
         /\ last'.kind = "ok"
         /\ last'.val = (IF last'.op = "eCO2" THEN _eCO2 ELSE _TVOC)
         /\ <<_eCO2, _TVOC>>' = <<_eCO2, _TVOC>>
         /\ \A i \in 1..Len(bus') :
              ~IsRead(bus'[i], CCS811_ALG_RESULT_DATA)]_vars

C7_Witness ==
    /\ last.op = "TVOC" /\ last.kind = "ok" /\ pc = "ready"
    /\ Len(bus) = 1 /\ ~GetBit(bus[1].in[1], 3)
    /\ pre = <<Some(400), Some(5)>>
    /\ last.val = Some(5) /\ _eCO2 = Some(400) /\ _TVOC = Some(5)

(* C8: a measurement refresh that fails with DeviceError leaves the cached *)
(* eCO2 and TVOC at the values they had before the call.                   *)
C8_ErrorKeepsCache ==
    (last.op = "TVOC" /\ last.kind = "DeviceError") =>
      <<_eCO2, _TVOC>> = pre

(* C9: an eCO2 read made while dataReady is set and error is clear does    *)
(* the 8-byte read of 0x02 and returns the eCO2 of that read.              *)
C9_eCO2Refreshes ==
    [][(eCO2 /\ GetBit(status, 3) /\ ~GetBit(status, 0)) =>
         \E i \in 1..Len(bus') :
           /\ IsRead(bus'[i], CCS811_ALG_RESULT_DATA)
           /\ Len(bus'[i].in) = 8
           /\ last'.val = Some(256 * bus'[i].in[1] + bus'[i].in[2])]_vars

(* C10: set_interrupt_thresholds(lowMed, medHigh, hysteresis) makes one    *)
(* write of the 6 bytes [0x10, lowMed >> 8, lowMed & 0xFF, medHigh >> 8,   *)
(* medHigh & 0xFF, hysteresis].                                            *)
C10_ThresholdBytes ==
    last.op = "set_interrupt_thresholds" =>
      bus = <<BusWrite(<<16, last.args[1] \div 256, last.args[1] % 256,
                             last.args[2] \div 256, last.args[2] % 256,
                             last.args[3]>>)>>

(* The arguments set_environmental_data accepts: humidity 0..100 percent,  *)
(* temperature -25..100 C in 1/512 degree.                                 *)
EnvInRange(args) ==
    /\ args[1] >= 0 /\ args[1] <= 100
    /\ args[2] >= -25 * 512 /\ args[2] <= 100 * 512

(* ((floor(t) + 25) << 9) | ((t - floor(t)) * 512 & 0x1FF)                 *)
TempField(t512) == ((t512 \div 512) + 25) * 512 + (t512 % 512)

(* C11: set_environmental_data with humidity in 0..100 and temperature in  *)
(* -25..100 succeeds and makes one write of the 5 bytes                    *)
(* [0x05, 2*humidity, 0x00, tempField >> 8, tempField & 0xFF].             *)
C11_EnvDataBytes ==
    (last.op = "set_environmental_data" /\ EnvInRange(last.args)) =>
      /\ last.kind = "ok"
      /\ bus = <<BusWrite(<<5, 2 * last.args[1], 0,
                            TempField(last.args[2]) \div 256,
                            TempField(last.args[2]) % 256>>)>>

(* C12: set_environmental_data with humidity outside 0..100 or temperature *)
(* outside -25..100 fails with InvalidArgument and writes nothing.         *)
C12_EnvDataRejects ==
    (last.op = "set_environmental_data" /\ ~EnvInRange(last.args)) =>
      /\ last.kind = "InvalidArgument"
      /\ bus = <<>>

(* C13: reset() makes exactly one bus transaction, the write of the 5      *)
(* bytes [0xFF, 0x11, 0xE5, 0x72, 0x8A]; it reads no HW_ID and writes      *)
(* neither 0xF4 nor MEAS_MODE.                                             *)
C13_ResetBytes ==
    last.op = "reset" =>
      /\ bus = <<BusWrite(<<255, 17, 229, 114, 138>>)>>
      /\ pc = "ready"
      /\ last.kind = "ok"

C13_Witness ==
    /\ last.op = "reset" /\ Len(bus) = 1
    /\ _TVOC = Some(5) /\ GetBit(status, 0) /\ ~GetBit(status, 7)

(* The bits of MEAS_MODE outside intEnable (3) and driveMode (4-6).        *)
OtherMeasModeBits(byte) == <<byte % 8, byte \div 128>>

(* C14: after a successful construction MEAS_MODE has intEnable = 0 and    *)
(* driveMode = 1, and its bits 0-2 and 7 are those it had before the       *)
(* construction.                                                           *)
C14_MeasModeFields ==
    (Constructing /\ pc = "ready" /\ last.kind = "ok") =>
      /\ ~GetBit(meas_mode, 3)
      /\ (meas_mode \div 16) % 8 = CCS811_DRIVE_MODE_1SEC
      /\ Reads(MEAS_MODE_REG) # {}
      /\ OtherMeasModeBits(meas_mode) =
           OtherMeasModeBits(bus[Min(Reads(MEAS_MODE_REG))].in[1])
      /\ bus[Max(Writes(MEAS_MODE_REG))].out[2] = meas_mode

C14_Witness ==
    /\ Constructing /\ pc = "ready" /\ last.kind = "ok"
    /\ bus[6] = BusRead(MEAS_MODE_REG, <<255>>)
    /\ meas_mode = 151

(* The step is a call of `op' on the constructed instance: the device     *)
(* leaves `last' as it is, and only a call of `op' sets last.op to it.     *)
Called(op) == pc = "ready" /\ last'.op = op /\ status' = status

(* The step read the status register and returned bit `bit' of the         *)
(* device's status byte.                                                   *)
LiveStatusBit(bit) ==
    /\ bus' = <<BusRead(STATUS_REG, <<status>>)>>
    /\ last'.kind = "ok"
    /\ last'.val = Some(Bool(GetBit(status, bit)))

(* C15: every read of error, dataReady, appValid, fwMode or hardwareId     *)
(* makes a bus read of its register and returns the value the device has   *)
(* at that moment, whatever an earlier read returned.                      *)
C15_StatusReadLive ==
    [][/\ Called("error") => LiveStatusBit(0)
       /\ Called("data_ready") => LiveStatusBit(3)
       /\ Called("app_valid") => LiveStatusBit(4)
       /\ Called("fw_mode") => LiveStatusBit(7)
       /\ Called("hw_id") => /\ bus' = <<BusRead(HW_ID_REG, <<hw_id>>)>>
                             /\ last'.val = Some(hw_id)]_vars

(* fwMode was set when the constructor read it and is read clear now.      *)
C15_Witness ==
    /\ last.op = "fw_mode" /\ last.val = Some(0)
    /\ bus = <<BusRead(STATUS_REG, <<status>>)>> /\ ~GetBit(status, 7)

(* C16: temperature() makes exactly one transaction, the read of 4 bytes   *)
(* of register 0x06, writes no register, and leaves the cached eCO2 and    *)
(* TVOC and temp_offset as they were, whether it returns or raises.        *)
C16_TemperatureReadOnly ==
    [][Called("temperature") =>
         /\ Len(bus') = 1
         /\ IsRead(bus'[1], CCS811_NTC)
         /\ Len(bus'[1].in) = 4
         /\ <<_eCO2, _TVOC>>' = <<_eCO2, _TVOC>>
         /\ temp_offset' = temp_offset
         /\ meas_mode' = meas_mode
         /\ pc' = "ready"]_vars

C16_Witness ==
    /\ last.op = "temperature" /\ last.kind = "ok"
    /\ last.val = <<1000 * CCS811_REF_RESISTOR, 1000, 5>>
    /\ temp_offset = 5 /\ _eCO2 = Some(400) /\ _TVOC = Some(5)
    /\ bus = <<BusRead(CCS811_NTC, <<3, 232, 3, 232>>)>>

(* C17: temperature() that reads vref = 0 raises the division-by-zero      *)
(* error (ZeroDivisionError, the spec's SensorReadError) and returns no    *)
(* value, whatever vntc is.                                                *)
C17_ZeroVrefFails ==
    (last.op = "temperature" /\ Len(bus) >= 1 /\ Len(bus[1].in) >= 2
       /\ bus[1].in[1] = 0 /\ bus[1].in[2] = 0) =>
      /\ last.kind = "ZeroDivisionError"
      /\ last.val = None

C17_Witness ==
    /\ last.op = "temperature" /\ last.kind = "ZeroDivisionError"
    /\ bus = <<BusRead(CCS811_NTC, <<0, 0, 255, 255>>)>>

(* In a TVOC read, every read of the status register after the data_ready  *)
(* test, and every read of the error code, comes after the 8-byte read.    *)
ErrorCheckedAfterRead ==
    last.op = "TVOC" =>
      /\ Preceded(Reads(STATUS_REG) \ {1}, Reads(CCS811_ALG_RESULT_DATA))
      /\ Preceded(Reads(ERROR_ID_REG), Reads(CCS811_ALG_RESULT_DATA))

(* C19: the measurement refresh tests the error bit only after an 8-byte   *)
(* read; a TVOC read that finds dataReady clear returns the cached TVOC    *)
(* without failing and makes no read but that of data_ready, also when the *)
(* device's error bit is set.                                              *)
C19_NoErrorCheckWhenNotReady ==
    /\ []ErrorCheckedAfterRead
    /\ [][(TVOC /\ ~GetBit(status, 3)) =>
            /\ pc' = "ready"
            /\ last'.kind = "ok"
            /\ last'.val = _TVOC
            /\ bus' = <<BusRead(STATUS_REG, <<status>>)>>]_vars

C19_Witness ==
    /\ last.op = "TVOC" /\ last.kind = "ok" /\ pc = "ready"
    /\ Len(bus) = 1 /\ GetBit(bus[1].in[1], 0) /\ ~GetBit(bus[1].in[1], 3)
    /\ last.val = Some(65280)

(* C20: reset, set_interrupt_thresholds, set_environmental_data and        *)
(* error_code leave the cached eCO2 and TVOC as they were; an eCO2 read    *)
(* after reset returns the eCO2 cached before the reset, and so does a     *)
(* TVOC read that finds dataReady clear.                                   *)
C20_ConfigKeepsCache ==
    [][/\ (\/ Called("reset")
           \/ Called("error_code")
           \/ Called("set_interrupt_thresholds")
           \/ Called("set_environmental_data"))
          => <<_eCO2, _TVOC>>' = <<_eCO2, _TVOC>>
       /\ (last.op = "reset" /\ Called("eCO2")) =>
            (last'.kind = "ok" /\ last'.val = pre[1])
       /\ (last.op = "reset" /\ Called("TVOC") /\ ~GetBit(status, 3)) =>
            (last'.kind = "ok" /\ last'.val = pre[2])]_vars

C20_Witness ==
    /\ last.op = "reset" /\ ~GetBit(status, 3)
    /\ pre = <<Some(65535), Some(65535)>>
    /\ _eCO2 = Some(65535) /\ _TVOC = Some(65535)

(* C18: on the shared bus every register read of the driver is its pointer *)
(* write followed at once by its read of the same register, both made      *)
(* while the driver holds the lock: no transfer of the other user falls    *)
(* between them.                                                           *)
C18_ReadNotInterrupted ==
    /\ \A i \in 1..Len(wire) :
         /\ (wire[i].by = "driver" /\ wire[i].kind = "read") =>
              /\ i > 1
              /\ wire[i - 1] = Transfer("driver", "write", wire[i].reg, 1)
         /\ (wire[i].by = "driver" /\ wire[i].kind = "write" /\ i < Len(wire)) =>
              /\ wire[i + 1].by = "driver"
              /\ wire[i + 1].kind = "read"
              /\ wire[i + 1].reg = wire[i].reg
    /\ pc \in {"with_entered", "pointer_written", "read_done"} => lock = "driver"

C18_Witness ==
    /\ Len(wire) = 5
    /\ wire[1].by = "other"
    /\ wire[2] = Transfer("driver", "write", CCS811_ALG_RESULT_DATA, 1)
    /\ wire[3] = Transfer("driver", "read", CCS811_ALG_RESULT_DATA, 8)
    /\ wire[4].by = "other"
    /\ wire[5] = Transfer("driver", "write", ERROR_ID_REG, 1)
====
